---------------------------- MODULE Spec2Model ----------------------------
(***************************************************************************)
(* Model of ermos/docker-redis-backup: the process bootstrap (main), the   *)
(* connection retry loop (backup.New), one backup cycle (Manager.Run with  *)
(* triggerBGSAVE, waitForBGSAVE, generateBackupName, applyRetention) and   *)
(* the storage backends the cycle talks to.                                *)
(*                                                                         *)
(* Strings are sequences of byte values, so that substring search,         *)
(* formatting and byte-wise comparison are computed as the code computes   *)
(* them.                                                                   *)
(***************************************************************************)
EXTENDS Integers, Sequences, FiniteSets, TLC

(***************************************************************************)
(* Bounds of the model                                                     *)
(***************************************************************************)
\* cron firings followed with the hourly schedule
MaxJobs == 1
\* cron firings followed with the schedule that fires every second
MaxBurst == 2
\* seconds the wall clock may advance during the run
MaxClock == 1
\* largest configured RETENTION_COUNT
MaxRetention == 2
\* polls of one wait phase that still see the snapshot running
MaxPolls == 1

(***************************************************************************)
(* Program constants                                                       *)
(***************************************************************************)
\* backup.go:32  maxRetries := 10
maxRetries == 10
\* backup.go:49  waitTime := time.Duration(i+1) * 2 * time.Second
RetryStepSeconds == 2
\* backup.go:50  if waitTime > 30*time.Second
RetryCapSeconds == 30

(***************************************************************************)
(* String literals of the source, as byte sequences                        *)
(***************************************************************************)
\* "rdb_bgsave_in_progress:1"   (backup.go:185)
InProgressMarker ==
  <<114, 100, 98, 95, 98, 103, 115, 97, 118, 101, 95, 105, 110, 95, 112, 114,
    111, 103, 114, 101, 115, 115, 58, 49>>
\* "redis-backup_"   (backup.go:147)
NamePrefix == <<114, 101, 100, 105, 115, 45, 98, 97, 99, 107, 117, 112, 95>>
\* ".rdb"   (backup.go:147, local List, s3.go:100, gcp.go:96)
NameExt == <<46, 114, 100, 98>>
\* "/"
Slash == <<47>>

(***************************************************************************)
(* The reply of INFO persistence, as far as the code reads it: the section *)
(* header, one field before the indicator, the indicator, one field after. *)
(***************************************************************************)
\* "# Persistence\r\nloading:0\r\nrdb_bgsave_in_progress:"
InfoHead ==
  <<35, 32, 80, 101, 114, 115, 105, 115, 116, 101, 110, 99, 101, 13, 10, 108,
    111, 97, 100, 105, 110, 103, 58, 48, 13, 10, 114, 100, 98, 95, 98, 103,
    115, 97, 118, 101, 95, 105, 110, 95, 112, 114, 111, 103, 114, 101, 115,
    115, 58>>
\* "\r\nrdb_last_bgsave_status:ok\r\n"
InfoTail ==
  <<13, 10, 114, 100, 98, 95, 108, 97, 115, 116, 95, 98, 103, 115, 97, 118,
    101, 95, 115, 116, 97, 116, 117, 115, 58, 111, 107, 13, 10>>

Digit(d) == 48 + d

InfoReply(inProgress) ==
  InfoHead \o <<Digit(IF inProgress THEN 1 ELSE 0)>> \o InfoTail

(***************************************************************************)
(* containsBGSAVEInProgress / containsString / findSubstring               *)
(***************************************************************************)
findSubstring(s, substr) ==
  \E i \in 0..(Len(s) - Len(substr)) :
     SubSeq(s, i + 1, i + Len(substr)) = substr

containsString(s, substr) ==
  Len(s) >= Len(substr) /\ findSubstring(s, substr)

containsBGSAVEInProgress(info) == containsString(info, InProgressMarker)

(***************************************************************************)
(* Byte-wise string order (Go's < on strings) and sort.Strings             *)
(***************************************************************************)
Min2(a, b) == IF a < b THEN a ELSE b

StrLess(a, b) ==
  \/ \E k \in 1..Min2(Len(a), Len(b)) :
        /\ a[k] < b[k]
        /\ \A j \in 1..(k - 1) : a[j] = b[j]
  \/ /\ Len(a) < Len(b)
     /\ \A j \in 1..Len(a) : a[j] = b[j]

StrLeq_descending(a, b) == a = b \/ StrLess(b, a)

StrLeq(a, b) == a = b \/ StrLess(a, b)

RECURSIVE Insert(_, _)
Insert(x, s) ==
  IF s = <<>> THEN <<x>>
  ELSE IF StrLeq(x, Head(s)) THEN <<x>> \o s
  ELSE <<Head(s)>> \o Insert(x, Tail(s))

RECURSIVE SortStrings(_)
SortStrings(s) ==
  IF s = <<>> THEN <<>> ELSE Insert(Head(s), SortStrings(Tail(s)))

\* the elements of a finite set of strings, in ascending byte order
RECURSIVE SetToSortedSeq(_)
SetToSortedSeq(S) ==
  IF S = {} THEN <<>>
  ELSE LET m == CHOOSE x \in S : \A y \in S : StrLeq(x, y)
       IN  <<m>> \o SetToSortedSeq(S \ {m})

(***************************************************************************)
(* generateBackupName: time.Now().UTC().Format("2006-01-02_15-04-05")      *)
(* An instant is a number of seconds since 2024-12-30 00:00:00 UTC; the    *)
(* calendar is computed for the instants up to the end of January 2025.    *)
(***************************************************************************)
Pad2(n) == <<Digit(n \div 10), Digit(n % 10)>>

Pad4(n) ==
  <<Digit(n \div 1000), Digit((n \div 100) % 10), Digit((n \div 10) % 10),
    Digit(n % 10)>>

DayOf(t) == t \div 86400
YearOf(t) == IF DayOf(t) <= 1 THEN 2024 ELSE 2025
MonthOf(t) == IF DayOf(t) <= 1 THEN 12 ELSE 1
DomOf(t) == IF DayOf(t) <= 1 THEN 30 + DayOf(t) ELSE DayOf(t) - 1
HourOf(t) == (t % 86400) \div 3600
MinuteOf(t) == (t % 3600) \div 60
SecondOf(t) == t % 60

FormatTime_dayFirst(t) ==
  Pad2(DomOf(t)) \o <<45>> \o Pad2(MonthOf(t)) \o <<45>> \o Pad4(YearOf(t))
  \o <<95>> \o Pad2(HourOf(t)) \o <<45>> \o Pad2(MinuteOf(t)) \o <<45>>
  \o Pad2(SecondOf(t))

\* layout "2006-01-02_15-04-05"
FormatTime(t) ==
  Pad4(YearOf(t)) \o <<45>> \o Pad2(MonthOf(t)) \o <<45>> \o Pad2(DomOf(t))
  \o <<95>> \o Pad2(HourOf(t)) \o <<45>> \o Pad2(MinuteOf(t)) \o <<45>>
  \o Pad2(SecondOf(t))

generateBackupName(t) == NamePrefix \o FormatTime(t) \o NameExt

(***************************************************************************)
(* Storage backends: the destination key of an artifact and the listing.   *)
(***************************************************************************)
HasSuffix(s, suf) ==
  Len(s) >= Len(suf) /\ SubSeq(s, Len(s) - Len(suf) + 1, Len(s)) = suf

HasPrefix(s, pre) == Len(s) >= Len(pre) /\ SubSeq(s, 1, Len(pre)) = pre

TrimSuffix(s, suf) ==
  IF HasSuffix(s, suf) THEN SubSeq(s, 1, Len(s) - Len(suf)) ELSE s

\* filepath.Base: trailing separators dropped, then the last path element
RECURSIVE StripSlashes(_)
StripSlashes(s) ==
  IF Len(s) > 0 /\ s[Len(s)] = 47 THEN StripSlashes(SubSeq(s, 1, Len(s) - 1))
  ELSE s

Base(path) ==
  IF path = <<>> THEN <<46>>
  ELSE LET p == StripSlashes(path)
           cuts == {k \in 1..Len(p) : p[k] = 47}
           last == IF cuts = {} THEN 0
                   ELSE CHOOSE k \in cuts : \A j \in cuts : j <= k
       IN  IF p = <<>> THEN Slash ELSE SubSeq(p, last + 1, Len(p))

\* filepath.Ext: the suffix beginning at the final dot of the last element
Ext(path) ==
  LET dots == {k \in 1..Len(path) :
                 /\ path[k] = 46
                 /\ \A j \in (k + 1)..Len(path) : path[j] # 46 /\ path[j] # 47}
  IN  IF dots = {} THEN <<>>
      ELSE LET k == CHOOSE d \in dots : TRUE IN SubSeq(path, k, Len(path))

\* S3Storage.getKey / GCPStorage.getObjectName; for the local backend the
\* key is the file name inside basePath (filepath.Join(basePath, name))
getKey(st, name) ==
  IF st.type = "local" \/ st.prefix = <<>> THEN name
  ELSE TrimSuffix(st.prefix, Slash) \o Slash \o name

\* the Prefix the object-store listings ask for
ListPrefix(st) ==
  IF st.prefix # <<>> /\ ~HasSuffix(st.prefix, Slash) THEN st.prefix \o Slash
  ELSE st.prefix

RECURSIVE MapBaseRdb(_)
MapBaseRdb(keys) ==
  IF keys = <<>> THEN <<>>
  ELSE LET name == Base(Head(keys))
       IN  (IF HasSuffix(name, NameExt) THEN <<name>> ELSE <<>>)
           \o MapBaseRdb(Tail(keys))

\* an entry of the local backup directory that is a sub-directory is
\* written with a trailing separator
IsDir(entry) == HasSuffix(entry, Slash)

RECURSIVE FilterExtRdb(_)
FilterExtRdb(names) ==
  IF names = <<>> THEN <<>>
  ELSE (IF ~IsDir(Head(names)) /\ Ext(Head(names)) = NameExt
        THEN <<Head(names)>> ELSE <<>>)
       \o FilterExtRdb(Tail(names))

\* keys one page of an object-store listing holds
PageSize == 2

KeepPaging_firstPageOnly(lastPage) == FALSE

\* whether the listing goes on to the next page: the page callback of
\* S3Storage.List returns true, GCPStorage.List loops until iterator.Done
KeepPaging(lastPage) == TRUE

\* the names an object-store listing collects, page by page
RECURSIVE ListPages(_)
ListPages(keys) ==
  LET n == Min2(PageSize, Len(keys))
      rest == SubSeq(keys, n + 1, Len(keys))
  IN  MapBaseRdb(SubSeq(keys, 1, n))
      \o (IF rest # <<>> /\ KeepPaging(FALSE) THEN ListPages(rest) ELSE <<>>)

\* LocalStorage.List / S3Storage.List / GCPStorage.List on the stored keys
StorageList(st, objs) ==
  IF st.type = "local"
  THEN SortStrings(FilterExtRdb(SetToSortedSeq(objs)))
  ELSE SortStrings(ListPages(SetToSortedSeq(
          {k \in objs : HasPrefix(k, ListPrefix(st))})))

\* whether the backend's calls observe the context of the cycle:
\* LocalStorage.List and LocalStorage.Delete ignore ctx
ObservesCtx(st, op) == ~(st.type = "local" /\ op \in {"LIST", "DELETE"})

\* whether Delete of a key that is not stored reports an error: os.Remove
\* and the GCS client do, S3 DeleteObject does not
DeleteMissingFails(st) == st.type # "s3"

(***************************************************************************)
(* State                                                                   *)
(***************************************************************************)
VARIABLES
  cfg,          \* the loaded configuration (read-only after Init)
  mainPc,       \* position of main
  fatal,        \* which log.Fatalf ended the process, "" if none
  i,            \* backup.New: loop variable
  attempts,     \* backup.New: pings issued so far
  slept,        \* backup.New: the durations slept so far, in seconds
  connected,    \* a Manager holding a live client exists
  jobs,         \* number of cron firings so far
  now,          \* wall clock, seconds after StartInstant
  bgsave,       \* the store's rdb_bgsave_in_progress indicator
  objects,      \* keys held by the storage backend
  pc,           \* position of each invocation of Run
  ctxDone,      \* the context of each invocation is cancelled or expired
  polls,        \* polls of the wait phase that saw the snapshot running
  backupName,   \* Run: backupName
  nameInstant,  \* generateBackupName: what time.Now() returned, -1 if none
  uploadOut,    \* how the Upload call of the invocation ended, "" if none
  backups,      \* applyRetention: backups
  idx,          \* applyRetention: loop variable i
  result,       \* what Run returned: "ok" or the failed stage
  errKind,      \* the error Run returned, by the place that produced it
  log,          \* the calls each invocation issued to the store and backend
  reports       \* diagnostic entries main wrote for each failed invocation

mainVars == <<mainPc, fatal, i, attempts, slept, connected, jobs>>
envVars == <<now, bgsave, objects>>
cycleVars ==
  <<pc, ctxDone, polls, backupName, nameInstant, uploadOut, backups, idx,
    result, errKind, log, reports>>
vars == <<cfg, mainVars, envVars, cycleVars>>

\* invocation 0 is the one main runs at startup, the others are cron firings
StartupCycle == 0
Cycles == 0..(IF MaxJobs > MaxBurst THEN MaxJobs ELSE MaxBurst)

\* 2024-12-31 23:59:58 UTC, in seconds since 2024-12-30 00:00:00 UTC
StartInstant == 172798

\* artifacts of earlier runs: 2024-12-30 00:00:00, 2024-12-30 01:01:01, ...
OldInstant(k) == (k - 1) * 3661

Backends ==
  { [type |-> "local", prefix |-> <<>>],
    [type |-> "s3", prefix |-> <<112>>],
    [type |-> "gcp", prefix |-> <<112, 47>>] }

\* number of artifacts the backend may hold when the process starts
MaxExisting == 2

Active(c) == pc[c] \notin {"idle", "returned", "done"}

(***************************************************************************)
(* main and backup.New                                                     *)
(***************************************************************************)
\* BACKUP_CRON: a schedule whose instants lie further apart than the
\* 30 minute deadline of a job, and one that fires every second
Hourly == "0 * * * *"
EverySecond == "* * * * * *"

Configs ==
  [ storage : Backends, RetentionCount : 0..MaxRetention,
    BackupOnStart : BOOLEAN, BackupCron : {Hourly} ]

\* the configurations followed with a schedule that fires every second
OverlapConfigs ==
  [ storage : {b \in Backends : b.type = "local"}, RetentionCount : {1},
    BackupOnStart : BOOLEAN, BackupCron : {EverySecond} ]

\* the state when main starts: a configuration, and a backend that holds
\* `existing` artifacts of earlier runs
Boot(configs, existing) ==
  /\ cfg \in configs
  /\ mainPc = "load"
  /\ fatal = ""
  /\ i = 0
  /\ attempts = 0
  /\ slept = <<>>
  /\ connected = FALSE
  /\ jobs = 0
  /\ now = 0
  /\ bgsave = FALSE
  /\ \E n \in existing :
        objects = { getKey(cfg.storage, generateBackupName(OldInstant(k))) :
                      k \in 1..n }
  /\ pc = [c \in Cycles |-> "idle"]
  /\ ctxDone = [c \in Cycles |-> FALSE]
  /\ polls = [c \in Cycles |-> 0]
  /\ backupName = [c \in Cycles |-> <<>>]
  /\ nameInstant = [c \in Cycles |-> -1]
  /\ uploadOut = [c \in Cycles |-> ""]
  /\ backups = [c \in Cycles |-> <<>>]
  /\ idx = [c \in Cycles |-> 0]
  /\ result = [c \in Cycles |-> ""]
  /\ errKind = [c \in Cycles |-> <<>>]
  /\ log = [c \in Cycles |-> <<>>]
  /\ reports = [c \in Cycles |-> 0]

\* config.Load and storage.New: an invalid configuration or a backend that
\* cannot be initialised ends the process
MainLoad ==
  /\ mainPc = "load"
  /\ \E ok \in BOOLEAN :
        IF ok THEN mainPc' = "storage" /\ fatal' = fatal
        ELSE mainPc' = "fatal" /\ fatal' = "config"
  /\ UNCHANGED <<cfg, i, attempts, slept, connected, jobs, envVars, cycleVars>>

MainStorage ==
  /\ mainPc = "storage"
  /\ \E ok \in BOOLEAN :
        IF ok THEN mainPc' = "new" /\ fatal' = fatal
        ELSE mainPc' = "fatal" /\ fatal' = "storage"
  /\ UNCHANGED <<cfg, i, attempts, slept, connected, jobs, envVars, cycleVars>>

\* waitTime after the failed attempt with loop variable k (0-based)
waitTime(k) ==
  IF (k + 1) * RetryStepSeconds > RetryCapSeconds THEN RetryCapSeconds
  ELSE (k + 1) * RetryStepSeconds

NewLoopCond_oneMore(k) == k <= maxRetries

\* the loop condition of backup.New
NewLoopCond(k) == k < maxRetries

AfterNew_errorIgnored(failed) == "newOk"

\* main after backup.New: log.Fatalf on its error, else it goes on with the
\* Manager
AfterNew(failed) == IF failed THEN "fatal" ELSE "newOk"

\* one Ping of the loop: success returns the Manager, failure goes to sleep
NewPing ==
  /\ mainPc = "new"
  /\ NewLoopCond(i)
  /\ attempts' = attempts + 1
  /\ \E ok \in BOOLEAN :
        IF ok THEN mainPc' = AfterNew(FALSE) /\ connected' = TRUE
        ELSE mainPc' = "newSleep" /\ connected' = connected
  /\ UNCHANGED <<cfg, fatal, i, slept, jobs, envVars, cycleVars>>

NewSleep ==
  /\ mainPc = "newSleep"
  /\ slept' = Append(slept, waitTime(i))
  /\ i' = i + 1
  /\ mainPc' = "new"
  /\ UNCHANGED <<cfg, fatal, attempts, connected, jobs, envVars, cycleVars>>

\* the loop ran out: New returns the error and main ends the process
NewExhausted ==
  /\ mainPc = "new"
  /\ ~NewLoopCond(i)
  /\ mainPc' = AfterNew(TRUE)
  /\ fatal' = "connect"
  /\ UNCHANGED <<cfg, i, attempts, slept, connected, jobs, envVars, cycleVars>>

\* New has returned the Manager (its locals are gone); BackupOnStart decides
\* whether main calls Run(context.Background()) before the scheduler exists
MainOnStart ==
  /\ mainPc = "newOk"
  /\ i' = 0 /\ attempts' = 0 /\ slept' = <<>>
  /\ IF cfg.BackupOnStart
     THEN /\ mainPc' = "startup"
          /\ pc' = [pc EXCEPT ![StartupCycle] = "trigger"]
     ELSE /\ mainPc' = "cron"
          /\ pc' = pc
  /\ UNCHANGED <<cfg, fatal, connected, jobs, envVars, ctxDone, polls,
                 backupName, nameInstant, uploadOut, backups, idx, result,
                 errKind, log, reports>>

\* what the caller of Run does with the result: one log entry if it failed
Report(c) == IF result[c] # "ok" THEN reports[c] + 1 ELSE reports[c]

AfterStartupRun_fatal(res) == IF res # "ok" THEN "fatal" ELSE "cron"

\* main after the startup Run: log.Printf on failure, then the scheduler
AfterStartupRun(res) == "cron"

\* the invocation is over: its frame and its context are gone
Finished(c) ==
  /\ reports' = [reports EXCEPT ![c] = Report(c)]
  /\ pc' = [pc EXCEPT ![c] = "done"]
  /\ ctxDone' = [ctxDone EXCEPT ![c] = FALSE]
  /\ polls' = [polls EXCEPT ![c] = 0]
  /\ backupName' = [backupName EXCEPT ![c] = <<>>]
  /\ nameInstant' = [nameInstant EXCEPT ![c] = -1]
  /\ uploadOut' = [uploadOut EXCEPT ![c] = ""]
  /\ result' = [result EXCEPT ![c] = ""]
  /\ errKind' = [errKind EXCEPT ![c] = <<>>]
  /\ log' = [log EXCEPT ![c] = <<>>]
  /\ UNCHANGED <<backups, idx>>

MainStartupReturn ==
  /\ mainPc = "startup"
  /\ pc[StartupCycle] = "returned"
  /\ Finished(StartupCycle)
  /\ mainPc' = AfterStartupRun(result[StartupCycle])
  /\ UNCHANGED <<cfg, fatal, i, attempts, slept, connected, jobs, envVars>>

\* cron.New, AddFunc, Start: a cron expression that does not parse is fatal
MainCron ==
  /\ mainPc = "cron"
  /\ \E ok \in BOOLEAN :
        IF ok THEN mainPc' = "serving" /\ fatal' = fatal
        ELSE mainPc' = "fatal" /\ fatal' = "cron"
  /\ UNCHANGED <<cfg, i, attempts, slept, connected, jobs, envVars, cycleVars>>

\* the scheduler fires: the job runs in a goroutine of its own, under a
\* context with the 30 minute timeout
\* With the hourly schedule the job of the previous instant, which ran
\* under the 30 minute deadline, has returned when the next instant comes.
\* The scheduler itself starts every job without looking at the others.
ScheduleInstant ==
  cfg.BackupCron = Hourly => \A c \in Cycles : pc[c] \in {"idle", "done"}

\* the firings the model follows
JobLimit == IF cfg.BackupCron = Hourly THEN MaxJobs ELSE MaxBurst

CronFire ==
  /\ mainPc = "serving"
  /\ jobs < JobLimit
  /\ ScheduleInstant
  /\ jobs' = jobs + 1
  /\ pc' = [pc EXCEPT ![jobs + 1] = "trigger"]
  /\ UNCHANGED <<cfg, mainPc, fatal, i, attempts, slept, connected, envVars,
                 ctxDone, polls, backupName, nameInstant, uploadOut, backups,
                 idx, result, errKind, log, reports>>

\* the job's closure after Run returned
JobReturn(c) ==
  /\ c # StartupCycle
  /\ pc[c] = "returned"
  /\ Finished(c)
  /\ UNCHANGED <<cfg, mainVars, envVars>>

\* SIGINT/SIGTERM: c.Stop() and wait for the running jobs. Stop leaves a
\* running job alone and only keeps further instants from firing, so a
\* signal during a job acts on the jobs like one that arrives right after
\* it: the model lets it arrive between jobs.
MainSignal ==
  /\ mainPc = "serving"
  /\ \A c \in Cycles : pc[c] \in {"idle", "done"}
  /\ mainPc' = "stopping"
  /\ UNCHANGED <<cfg, fatal, i, attempts, slept, connected, jobs, envVars, cycleVars>>

MainStopped ==
  /\ mainPc = "stopping"
  /\ \A c \in Cycles : pc[c] \in {"idle", "done"}
  /\ mainPc' = "stopped"
  /\ UNCHANGED <<cfg, fatal, i, attempts, slept, connected, jobs, envVars, cycleVars>>

(***************************************************************************)
(* The environment: wall clock, the store's own snapshots, the deadline    *)
(***************************************************************************)
\* The clock is read by Name only, the indicator by the status reads and by
\* BGSAVE only: the environment moves them when an invocation is about to
\* look, which leaves out no value an invocation can see.
ReadsClock(c) == pc[c] = "name"
ReadsIndicator(c) == pc[c] \in {"trigger", "bgsave", "wait"}

\* main passes context.Background() at startup and a 30 minute timeout
\* context to every cron job
HasDeadline(c) == c # StartupCycle

Tick ==
  /\ \E c \in Cycles : ReadsClock(c)
  /\ now < MaxClock
  /\ now' = now + 1
  /\ UNCHANGED <<cfg, mainVars, bgsave, objects, cycleVars>>

\* the store finishes the snapshot it is writing
SnapshotDone ==
  /\ \E c \in Cycles : ReadsIndicator(c)
  /\ bgsave
  /\ bgsave' = FALSE
  /\ UNCHANGED <<cfg, mainVars, now, objects, cycleVars>>

\* the store starts a snapshot by its own save policy
StoreSave ==
  /\ \E c \in Cycles : ReadsIndicator(c)
  /\ ~bgsave
  /\ bgsave' = TRUE
  /\ UNCHANGED <<cfg, mainVars, now, objects, cycleVars>>

CtxExpire(c) ==
  /\ HasDeadline(c)
  /\ Active(c)
  /\ ~ctxDone[c]
  /\ ctxDone' = [ctxDone EXCEPT ![c] = TRUE]
  /\ UNCHANGED <<cfg, mainVars, envVars, pc, polls, backupName, nameInstant,
                 uploadOut, backups, idx, result, errKind, log, reports>>

(***************************************************************************)
(* Manager.Run                                                             *)
(***************************************************************************)
Logged(c, op, arg, ok) ==
  [log EXCEPT ![c] = Append(@, [op |-> op, arg |-> arg, ok |-> ok])]

\* Run returns: res is "ok" or the stage that failed, kind the error
Return(c, res, kind) ==
  /\ pc' = [pc EXCEPT ![c] = "returned"]
  /\ result' = [result EXCEPT ![c] = res]
  /\ errKind' = [errKind EXCEPT ![c] = kind]
  /\ backups' = [backups EXCEPT ![c] = <<>>]
  /\ idx' = [idx EXCEPT ![c] = 0]

Goto(c, label) ==
  /\ pc' = [pc EXCEPT ![c] = label]
  /\ UNCHANGED <<result, errKind>>

\* a command of the store client: a finished context fails it before it is
\* sent, otherwise the network decides
CmdError(c, fail) ==
  IF ctxDone[c] THEN "ctx" ELSE IF fail THEN "io" ELSE ""

\* `if err != nil` after a call
Failed(err) == err # ""

\* what a status read reported, for the record of calls: "1", "0", or
\* nothing when the read failed
Reported(err) == IF err # "" THEN <<>> ELSE <<Digit(IF bgsave THEN 1 ELSE 0)>>

MustTrigger_always(info) == TRUE

\* triggerBGSAVE decides on the INFO reply whether to send BGSAVE
MustTrigger(info) == ~containsBGSAVEInProgress(info)

\* triggerBGSAVE, the status read
TriggerInfo(c) ==
  /\ pc[c] = "trigger"
  /\ \E fail \in BOOLEAN :
        LET err == CmdError(c, fail)
        IN  /\ log' = Logged(c, "INFO", Reported(err), err = "")
            /\ IF Failed(err)
               THEN Return(c, "trigger", <<"info", err>>)
               ELSE /\ Goto(c, IF MustTrigger(InfoReply(bgsave))
                               THEN "bgsave" ELSE "wait")
                    /\ UNCHANGED <<backups, idx>>
  /\ UNCHANGED <<cfg, mainVars, envVars, ctxDone, polls, backupName,
                 nameInstant, uploadOut, reports>>

\* triggerBGSAVE, the BGSAVE command: the store rejects it while a snapshot
\* is being written
TriggerBgSave(c) ==
  /\ pc[c] = "bgsave"
  /\ \E fail \in BOOLEAN :
        LET cmd == CmdError(c, fail)
            err == IF cmd = "" /\ bgsave THEN "busy" ELSE cmd
        IN  /\ log' = Logged(c, "BGSAVE", <<>>, err = "")
            /\ IF Failed(err)
               THEN /\ Return(c, "trigger", <<"bgsave", err>>)
                    /\ bgsave' = bgsave
               ELSE /\ Goto(c, "wait")
                    /\ bgsave' = TRUE
                    /\ UNCHANGED <<backups, idx>>
  /\ UNCHANGED <<cfg, mainVars, now, objects, ctxDone, polls, backupName,
                 nameInstant, uploadOut, reports>>

\* waitForBGSAVE, select case <-ctx.Done()
WaitCtxDone(c) ==
  /\ pc[c] = "wait"
  /\ ctxDone[c]
  /\ Return(c, "wait", <<"ctx", "ctx">>)
  /\ UNCHANGED <<cfg, mainVars, envVars, ctxDone, polls, backupName,
                 nameInstant, uploadOut, log, reports>>

\* waitForBGSAVE, `if !containsBGSAVEInProgress(info)`: the wait phase is over
WaitOver_always(info) == TRUE

WaitOver(info) == ~containsBGSAVEInProgress(info)

\* waitForBGSAVE, select case <-ticker.C: one status read
WaitTick(c) ==
  /\ pc[c] = "wait"
  /\ \E fail \in BOOLEAN :
        LET err == CmdError(c, fail)
        IN  /\ log' = Logged(c, "POLL", Reported(err), err = "")
            /\ IF Failed(err)
               THEN Return(c, "wait", <<"info", err>>) /\ polls' = polls
               ELSE IF WaitOver(InfoReply(bgsave))
               THEN Goto(c, "name") /\ polls' = polls
                    /\ UNCHANGED <<backups, idx>>
               ELSE /\ polls[c] < MaxPolls
                    /\ polls' = [polls EXCEPT ![c] = @ + 1]
                    /\ UNCHANGED <<pc, result, errKind, backups, idx>>
  /\ UNCHANGED <<cfg, mainVars, envVars, ctxDone, backupName, nameInstant,
                 uploadOut, reports>>

\* Run step 3
Name(c) ==
  /\ pc[c] = "name"
  /\ nameInstant' = [nameInstant EXCEPT ![c] = StartInstant + now]
  /\ backupName' = [backupName EXCEPT ![c] = generateBackupName(nameInstant'[c])]
  /\ log' = Logged(c, "NAME", backupName'[c], TRUE)
  /\ Goto(c, "upload")
  /\ UNCHANGED <<cfg, mainVars, envVars, ctxDone, polls, uploadOut, backups,
                 idx, reports>>

\* How Upload can end. "nosrc": the source file cannot be opened; "create":
\* the local destination cannot be created; "io": the copy fails midway;
\* "ctx": the context ends the transfer; "close": the copy went through and
\* closing the local destination failed; "ok". The local backend races the
\* copy against ctx.Done(), so with a finished context either may win.
UploadOutcomes(st, done) ==
  IF st.type = "local"
  THEN {"nosrc", "create", "io", "close", "ok"}
       \cup (IF done THEN {"ctx"} ELSE {})
  ELSE IF done THEN {"nosrc", "ctx"} ELSE {"nosrc", "io", "ok"}

\* the error Upload returns, "" for nil: LocalStorage.Upload closes the
\* destination in a defer and drops the error of Close
UploadReturns(st, out) ==
  IF out = "ok" \/ (st.type = "local" /\ out = "close") THEN "" ELSE out

UploadLeavesKey_always(st, out) == {TRUE}

\* whether the destination key exists afterwards when it did not before:
\* os.Create leaves the file of an interrupted local copy; an aborted S3
\* upload leaves nothing; the deferred writer.Close() of the GCS backend
\* may still finalize what was written when the copy failed on a read
UploadLeavesKey(st, out) ==
  IF out \in {"ok", "close"} THEN {TRUE}
  ELSE IF out \in {"nosrc", "create"} THEN {FALSE}
  ELSE IF st.type = "local" THEN {TRUE}
  ELSE IF st.type = "gcp" /\ out = "io" THEN {TRUE, FALSE}
  ELSE {FALSE}

UploadFailed_never(err) == FALSE

\* `if err := m.storage.Upload(...); err != nil`
UploadFailed(err) == err # ""

\* Run step 5: the retention pass runs only for a positive count
RetentionEnabled(r) == r > 0

AfterRetention_fatal(err) == IF err # "" THEN "retention" ELSE "ok"

\* Run after applyRetention: its error is logged as a warning, Run returns nil
AfterRetention(err) == "ok"

\* Run step 4, and the decision of step 5
Upload(c) ==
  /\ pc[c] = "upload"
  /\ \E out \in UploadOutcomes(cfg.storage, ctxDone[c]) :
     \E kept \in UploadLeavesKey(cfg.storage, out) :
        LET err == UploadReturns(cfg.storage, out)
        IN  /\ uploadOut' = [uploadOut EXCEPT ![c] = out]
            /\ log' = Logged(c, "UPLOAD", backupName[c], err = "")
            /\ objects' = IF kept
                          THEN objects \cup {getKey(cfg.storage, backupName[c])}
                          ELSE objects
            /\ IF UploadFailed(err)
               THEN Return(c, "upload", <<"upload", err>>)
               ELSE IF RetentionEnabled(cfg.RetentionCount)
               THEN Goto(c, "list") /\ UNCHANGED <<backups, idx>>
               ELSE Return(c, "ok", <<>>)
  /\ UNCHANGED <<cfg, mainVars, now, bgsave, ctxDone, polls, backupName,
                 nameInstant, reports>>

\* a call of the backend fails when the backend observes a finished context
\* or on an I/O error
CallError(c, op, fail) ==
  IF ObservesCtx(cfg.storage, op) /\ ctxDone[c] THEN "ctx"
  ELSE IF fail THEN "io" ELSE ""

toDelete_oneMore(n, r) == n - r + 1

\* applyRetention: toDelete := len(backups) - RetentionCount
toDelete(n, r) == n - r

MoreToDelete_stopOnError(err, k, todo) == err = "" /\ k + 1 < todo

\* the deletion loop after the call for backups[k]: the error is logged
\* and the loop goes on while i < toDelete
MoreToDelete(err, k, todo) == k + 1 < todo

\* applyRetention, the listing and the early return
RetentionList(c) ==
  /\ pc[c] = "list"
  /\ \E fail \in BOOLEAN :
        LET err == CallError(c, "LIST", fail)
            listed == StorageList(cfg.storage, objects)
        IN  IF err # ""
            THEN /\ log' = Logged(c, "LIST", <<>>, FALSE)
                 /\ Return(c, AfterRetention(err), <<>>)
            ELSE /\ log' = Logged(c, "LIST", listed, TRUE)
                 /\ IF Len(listed) <= cfg.RetentionCount
                    THEN Return(c, "ok", <<>>)
                    ELSE /\ Goto(c, "delete")
                         /\ backups' = [backups EXCEPT ![c] = listed]
                         /\ idx' = [idx EXCEPT ![c] = 0]
  /\ UNCHANGED <<cfg, mainVars, envVars, ctxDone, polls, backupName,
                 nameInstant, uploadOut, reports>>

\* applyRetention, one iteration of the deletion loop
RetentionDelete(c) ==
  /\ pc[c] = "delete"
  /\ \E fail \in BOOLEAN :
        LET name == backups[c][idx[c] + 1]
            key == getKey(cfg.storage, name)
            call == CallError(c, "DELETE", fail)
            err == IF call = "" /\ key \notin objects
                      /\ DeleteMissingFails(cfg.storage)
                   THEN "missing" ELSE call
        IN  /\ log' = Logged(c, "DELETE", name, err = "")
            /\ objects' = IF err = "" THEN objects \ {key} ELSE objects
            /\ IF MoreToDelete(err, idx[c],
                               toDelete(Len(backups[c]), cfg.RetentionCount))
               THEN /\ idx' = [idx EXCEPT ![c] = @ + 1]
                    /\ UNCHANGED <<pc, result, errKind, backups>>
               ELSE Return(c, "ok", <<>>)
  /\ UNCHANGED <<cfg, mainVars, now, bgsave, ctxDone, polls, backupName,
                 nameInstant, uploadOut, reports>>

RunStep(c) ==
  \/ TriggerInfo(c)
  \/ TriggerBgSave(c)
  \/ WaitCtxDone(c)
  \/ WaitTick(c)
  \/ Name(c)
  \/ Upload(c)
  \/ RetentionList(c)
  \/ RetentionDelete(c)

Next ==
  \/ MainLoad
  \/ MainStorage
  \/ NewPing
  \/ NewSleep
  \/ NewExhausted
  \/ MainOnStart
  \/ MainStartupReturn
  \/ MainCron
  \/ CronFire
  \/ MainSignal
  \/ MainStopped
  \/ Tick
  \/ SnapshotDone
  \/ StoreSave
  \/ \E c \in Cycles : CtxExpire(c) \/ JobReturn(c) \/ RunStep(c)

(***************************************************************************)
(* generateBackupName over a range of instants: two cron jobs that have    *)
(* finished their wait phase read the clock at instants that lie a number  *)
(* of seconds, minutes, hours and days after StartInstant.                 *)
(***************************************************************************)
\* how many seconds, minutes, hours and days the clock may have advanced
MaxUnits == 1

NamingOffsets ==
  { s + 60 * m + 3600 * h + 86400 * d :
      s \in 0..MaxUnits, m \in 0..MaxUnits, h \in 0..MaxUnits,
      d \in 0..MaxUnits }

\* the record of calls of an invocation whose trigger and wait went through
WaitedLog ==
  << [op |-> "INFO", arg |-> <<Digit(0)>>, ok |-> TRUE],
     [op |-> "BGSAVE", arg |-> <<>>, ok |-> TRUE],
     [op |-> "POLL", arg |-> <<Digit(0)>>, ok |-> TRUE] >>

\* the scheduler serves and the jobs of `running` are about to name their
\* artifact
Serving(configs, running) ==
  /\ cfg \in configs
  /\ mainPc = "serving"
  /\ fatal = ""
  /\ i = 0
  /\ attempts = 0
  /\ slept = <<>>
  /\ connected = TRUE
  /\ jobs = Cardinality(running)
  /\ now = 0
  /\ bgsave = FALSE
  /\ pc = [c \in Cycles |-> IF c \in running THEN "name" ELSE "idle"]
  /\ ctxDone = [c \in Cycles |-> FALSE]
  /\ polls = [c \in Cycles |-> 0]
  /\ backupName = [c \in Cycles |-> <<>>]
  /\ nameInstant = [c \in Cycles |-> -1]
  /\ uploadOut = [c \in Cycles |-> ""]
  /\ backups = [c \in Cycles |-> <<>>]
  /\ idx = [c \in Cycles |-> 0]
  /\ result = [c \in Cycles |-> ""]
  /\ errKind = [c \in Cycles |-> <<>>]
  /\ log = [c \in Cycles |-> IF c \in running THEN WaitedLog ELSE <<>>]
  /\ reports = [c \in Cycles |-> 0]

\* time passes while a job is about to read the clock
Elapse ==
  /\ \E c \in Cycles : ReadsClock(c)
  /\ \E t \in NamingOffsets : t > now /\ now' = t
  /\ UNCHANGED <<cfg, mainVars, bgsave, objects, cycleVars>>

InitNaming ==
  /\ Serving({c \in OverlapConfigs : ~c.BackupOnStart}, {1, 2})
  /\ objects = {}

NextNaming == Elapse \/ \E c \in Cycles : Name(c)

SpecNaming == InitNaming /\ [][NextNaming]_vars

(***************************************************************************)
(* The storage backends on arbitrary content: one cron job that has        *)
(* finished its wait phase names, uploads and applies retention on a       *)
(* backend that holds artifacts of earlier runs and objects the program    *)
(* did not write.                                                          *)
(***************************************************************************)
\* BACKUP_PREFIX: "", "p", "p/"
Prefixes == {<<>>, <<112>>, <<112, 47>>}

StorageBackends ==
  {[type |-> "local", prefix |-> <<>>]}
  \cup [type : {"s3", "gcp"}, prefix : Prefixes]

StorageConfigs ==
  [ storage : StorageBackends, RetentionCount : 1..MaxRetention,
    BackupOnStart : {FALSE}, BackupCron : {Hourly} ]

\* what a backend may hold: artifacts of earlier runs; "n", an object in
\* scope without the extension; "q/<artifact>", outside a non-empty prefix;
\* "x/<name>" below the scope, with the name of the artifact about to be
\* written and with the name of an older one (for the local backend "x/" is
\* a sub-directory, which hides what it holds); the empty object "p/" that
\* marks the prefix as a folder
ForeignKeys(st) ==
  IF st.type = "local" THEN {<<110>>, <<120, 47>>}
  ELSE { getKey(st, <<110>>),
         <<113, 47>> \o generateBackupName(OldInstant(1)),
         getKey(st, <<120, 47>> \o generateBackupName(StartInstant)),
         getKey(st, <<120, 47>> \o generateBackupName(OldInstant(2))) }
       \cup (IF st.prefix = <<>> THEN {} ELSE {ListPrefix(st)})

KeyUniverse(st) ==
  { getKey(st, generateBackupName(OldInstant(k))) : k \in 1..MaxExisting }
  \cup ForeignKeys(st)

\* someone else removes the object the deletion loop is about to delete
\* (another instance or an operator working on the same backend)
ExternalDelete(c) ==
  /\ pc[c] = "delete"
  /\ getKey(cfg.storage, backups[c][idx[c] + 1]) \in objects
  /\ objects' = objects \ {getKey(cfg.storage, backups[c][idx[c] + 1])}
  /\ UNCHANGED <<cfg, mainVars, now, bgsave, cycleVars>>

InitStorage ==
  /\ Serving(StorageConfigs, {1})
  /\ objects \in SUBSET KeyUniverse(cfg.storage)

NextStorage ==
  \E c \in Cycles :
     \/ Name(c)
     \/ Upload(c)
     \/ RetentionList(c)
     \/ RetentionDelete(c)
     \/ ExternalDelete(c)
     \/ CtxExpire(c)
     \/ JobReturn(c)

SpecStorage == InitStorage /\ [][NextStorage]_vars

(***************************************************************************)
(* Overlapping retention passes: two cron jobs of a schedule that fires    *)
(* every second have both finished their wait phase; each names, uploads   *)
(* and applies retention on a backend that holds artifacts of earlier      *)
(* runs, in any interleaving.                                              *)
(***************************************************************************)
RaceConfigs ==
  [ storage : Backends, RetentionCount : 1..MaxRetention,
    BackupOnStart : {FALSE}, BackupCron : {EverySecond} ]

InitRace ==
  /\ Serving(RaceConfigs, {1, 2})
  /\ \E n \in 0..MaxExisting :
        objects = { getKey(cfg.storage, generateBackupName(OldInstant(k))) :
                      k \in 1..n }

NextRace ==
  \/ Tick
  \/ \E c \in Cycles :
        \/ Name(c)
        \/ Upload(c)
        \/ RetentionList(c)
        \/ RetentionDelete(c)
        \/ CtxExpire(c)
        \/ JobReturn(c)

SpecRace == InitRace /\ [][NextRace]_vars

Init == Boot(Configs, 0..MaxExisting)

Spec == Init /\ [][Next]_vars

\* a schedule that fires while a job can still be running
InitOverlap == Boot(OverlapConfigs, {1})

SpecOverlap == InitOverlap /\ [][Next]_vars

(***************************************************************************)
(* The record of calls of an invocation                                    *)
(***************************************************************************)
OpsOf(c, op) == {k \in 1..Len(log[c]) : log[c][k].op = op}

\* the names the Delete calls of c were issued for, in call order
DeletedNames(c) ==
  LET dels == SelectSeq(log[c], LAMBDA e : e.op = "DELETE")
  IN  [k \in 1..Len(dels) |-> dels[k].arg]

\* c has listed successfully; Listing(c) is what List returned
HasListing(c) == \E k \in OpsOf(c, "LIST") : log[c][k].ok
Listing(c) == log[c][CHOOSE k \in OpsOf(c, "LIST") : log[c][k].ok].arg

UploadedOk(c) == \E k \in OpsOf(c, "UPLOAD") : log[c][k].ok

Returned(c) == pc[c] = "returned"

(***************************************************************************)
(* C1: the retention pass of a cycle that has returned: with a retention   *)
(* count of 0 neither List nor Delete was called; with n listed names and  *)
(* n <= r no Delete was called; with n > r > 0 exactly n - r Delete calls  *)
(* were issued, for the n - r first names of the sorted listing, which are *)
(* the lexically smallest ones.                                            *)
(***************************************************************************)
C1_RetentionCount ==
  \A c \in Cycles :
     Returned(c) =>
       LET r == cfg.RetentionCount
           dels == DeletedNames(c)
       IN  /\ r = 0 => OpsOf(c, "LIST") = {} /\ dels = <<>>
           /\ ~HasListing(c) => dels = <<>>
           /\ HasListing(c) =>
                LET n == Len(Listing(c))
                IN  /\ n <= r => dels = <<>>
                    /\ n > r =>
                         /\ r > 0
                         /\ Len(dels) = n - r
                         /\ dels = SubSeq(Listing(c), 1, n - r)
                         /\ \A d \in 1..(n - r) : \A k \in (n - r + 1)..n :
                               StrLeq(Listing(c)[d], Listing(c)[k])

\* a cycle returned after deleting at least two of the listed names
C1_Witness ==
  \E c \in Cycles :
     /\ Returned(c)
     /\ HasListing(c)
     /\ Len(Listing(c)) >= cfg.RetentionCount + 2
     /\ Len(DeletedNames(c)) >= 2

(***************************************************************************)
(* C2: the calls of a cycle follow the order trigger (INFO, BGSAVE), wait  *)
(* (POLL), name, upload, retention (LIST, DELETE); every call is preceded  *)
(* by the successful call its stage requires; a failed call of the         *)
(* trigger, wait or upload stage is the last call of the cycle, and the    *)
(* cycle returns the failure of that stage.                                *)
(***************************************************************************)
Stage(op) ==
  CASE op \in {"INFO", "BGSAVE"} -> 1
    [] op = "POLL" -> 2
    [] op = "NAME" -> 3
    [] op = "UPLOAD" -> 4
    [] op \in {"LIST", "DELETE"} -> 5

StageName(op) ==
  CASE op \in {"INFO", "BGSAVE"} -> "trigger"
    [] op = "POLL" -> "wait"
    [] op = "UPLOAD" -> "upload"
    [] OTHER -> "ok"

\* the calls that may directly precede a call, and whether they must have
\* succeeded
MayFollow(prev, e) ==
  CASE e.op = "INFO" -> FALSE
    [] e.op = "BGSAVE" -> prev.op = "INFO" /\ prev.ok
    [] e.op = "POLL" -> prev.op \in {"INFO", "BGSAVE", "POLL"} /\ prev.ok
    [] e.op = "NAME" -> prev.op = "POLL" /\ prev.ok
    [] e.op = "UPLOAD" -> prev.op = "NAME"
    [] e.op = "LIST" -> prev.op = "UPLOAD" /\ prev.ok
    [] e.op = "DELETE" -> prev.op = "DELETE" \/ (prev.op = "LIST" /\ prev.ok)

C2_StageOrder ==
  \A c \in Cycles :
     LET l == log[c]
     IN  /\ Len(l) > 0 => l[1].op = "INFO"
         /\ \A k \in 2..Len(l) :
               /\ MayFollow(l[k - 1], l[k])
               /\ Stage(l[k - 1].op) <= Stage(l[k].op)
         /\ \A k \in 1..Len(l) :
               (~l[k].ok /\ Stage(l[k].op) < 5) =>
                  /\ k = Len(l)
                  /\ Returned(c)
                  /\ result[c] = StageName(l[k].op)
         /\ (Returned(c) /\ result[c] = "trigger") =>
               \A k \in 1..Len(l) : Stage(l[k].op) = 1
         /\ (Returned(c) /\ result[c] = "wait") =>
               \A k \in 1..Len(l) : Stage(l[k].op) <= 2
         /\ (Returned(c) /\ result[c] = "upload") =>
               \A k \in 1..Len(l) : Stage(l[k].op) <= 4
         /\ Returned(c) => result[c] \in {"ok", "trigger", "wait", "upload"}

\* a cycle returned the upload failure after a successful trigger and wait
C2_Witness ==
  \E c \in Cycles :
     /\ Returned(c)
     /\ result[c] = "upload"
     /\ OpsOf(c, "BGSAVE") # {}
     /\ OpsOf(c, "POLL") # {}
     /\ ~log[c][Len(log[c])].ok

(***************************************************************************)
(* C3: once the Upload of a cycle has succeeded the cycle returns success, *)
(* whether or not List or any Delete of the retention pass failed.         *)
(***************************************************************************)
C3_RetentionNonFatal ==
  \A c \in Cycles :
     UploadedOk(c) =>
       /\ result[c] \in {"", "ok"}
       /\ Returned(c) => result[c] = "ok"

\* a cycle returned after its upload succeeded and two of its Delete calls
\* failed
C3_Witness ==
  \E c \in Cycles :
     /\ Returned(c)
     /\ UploadedOk(c)
     /\ Cardinality({k \in OpsOf(c, "DELETE") : ~log[c][k].ok}) >= 2

(***************************************************************************)
(* C4: in the deletion loop every one of the n - r first listed names gets *)
(* its Delete call, one each and in listing order, whatever the earlier    *)
(* calls returned: the calls issued so far are a prefix of those names,    *)
(* the loop is left only after the last of them.                           *)
(***************************************************************************)
C4_DeleteAll ==
  \A c \in Cycles :
     (HasListing(c) /\ Len(Listing(c)) > cfg.RetentionCount) =>
        LET todo == Len(Listing(c)) - cfg.RetentionCount
            dels == DeletedNames(c)
        IN  /\ Len(dels) <= todo
            /\ dels = SubSeq(Listing(c), 1, Len(dels))
            /\ Len(dels) < todo => pc[c] = "delete"
            /\ Returned(c) => Len(dels) = todo

\* a Delete failed and a later Delete was still issued
C4_Witness ==
  \E c \in Cycles :
     \E k \in OpsOf(c, "DELETE") :
        /\ ~log[c][k].ok
        /\ k < Len(log[c])
        /\ log[c][k + 1].op = "DELETE"
        /\ Returned(c)

(***************************************************************************)
(* C5: BGSAVE is sent only after the status read of the trigger step       *)
(* reported no snapshot in progress; when that read reports a snapshot in  *)
(* progress no BGSAVE is sent, the trigger step does not fail and the next *)
(* call of the cycle is the first poll of the wait phase.                  *)
(***************************************************************************)
SawInProgress(e) == e.ok /\ e.arg = <<Digit(1)>>

C5_NoSecondTrigger ==
  \A c \in Cycles :
     LET l == log[c]
     IN  /\ \A k \in OpsOf(c, "BGSAVE") :
               k = 2 /\ l[1].op = "INFO" /\ l[1].ok /\ l[1].arg = <<Digit(0)>>
         /\ (Len(l) >= 1 /\ SawInProgress(l[1])) =>
               /\ OpsOf(c, "BGSAVE") = {}
               /\ result[c] # "trigger"
               /\ pc[c] # "bgsave"
               /\ Len(l) = 1 => pc[c] = "wait" \/ (Returned(c) /\ result[c] = "wait")
               /\ Len(l) >= 2 => l[2].op = "POLL"

\* the trigger step saw a snapshot in progress and the cycle went on to
\* upload
C5_Witness ==
  \E c \in Cycles :
     /\ Len(log[c]) >= 1
     /\ SawInProgress(log[c][1])
     /\ UploadedOk(c)

(***************************************************************************)
(* C6: a cycle whose context ended while it was in the wait phase returns  *)
(* the context's error itself (the ctx.Done() case of the select), never   *)
(* the error of a failed status read.                                      *)
(***************************************************************************)
C6_CancelledWaitReturnsCtxErr ==
  \A c \in Cycles :
     (Returned(c) /\ result[c] = "wait" /\ ctxDone[c]) =>
        errKind[c] = <<"ctx", "ctx">>

(***************************************************************************)
(* C7: every invocation of Run that is under way has a deadline that can   *)
(* end it.                                                                 *)
(***************************************************************************)
C7_EveryCycleHasDeadline == \A c \in Cycles : Active(c) => HasDeadline(c)

(***************************************************************************)
(* C8: at no time are two invocations of Run under way.                    *)
(***************************************************************************)
C8_NoOverlap == Cardinality({c \in Cycles : Active(c)}) <= 1

(***************************************************************************)
(* C9: when Run has returned, its caller writes one diagnostic entry if    *)
(* the cycle failed and none otherwise, and the process goes on: main      *)
(* proceeds to the scheduler after the startup cycle, the scheduler keeps  *)
(* serving after a job. The process ends fatally only from the             *)
(* configuration, storage, connection and cron set-up steps, before any    *)
(* job was started, and the scheduler stops only on a signal.              *)
(***************************************************************************)
C9_Step ==
  /\ \A c \in Cycles :
        (pc[c] = "returned" /\ pc'[c] = "done") =>
           /\ reports'[c] = (IF result[c] = "ok" THEN 0 ELSE 1)
           /\ fatal' = ""
           /\ mainPc' = (IF c = StartupCycle THEN "cron" ELSE mainPc)
  /\ (mainPc' = "fatal" /\ mainPc # "fatal") =>
        /\ mainPc \in {"load", "storage", "new", "cron"}
        /\ fatal' \in {"config", "storage", "connect", "cron"}
        /\ jobs = 0
        /\ \A c \in Cycles : ~Active(c) /\ pc[c] # "returned"
  /\ (mainPc = "serving" /\ mainPc' # "serving") => mainPc' = "stopping"

C9_FailedCycleNotFatal == [][C9_Step]_vars

\* the startup cycle failed and was reported, and a cron job is running
C9_Witness ==
  /\ reports[StartupCycle] = 1
  /\ pc[StartupCycle] = "done"
  /\ \E c \in Cycles : c # StartupCycle /\ Active(c)

(***************************************************************************)
(* C10: backup.New pings at most maxRetries times; it returns the Manager  *)
(* at the first ping that succeeds, all pings before it having failed, and *)
(* pings no more; it returns the connection error exactly when maxRetries  *)
(* pings have failed; the loop is never stuck, so it ends after at most    *)
(* maxRetries rounds.                                                      *)
(***************************************************************************)
C10_BoundedConnect ==
  /\ attempts <= maxRetries
  /\ mainPc = "new" => ~connected /\ attempts = i /\ Len(slept) = i
  /\ mainPc = "newSleep" => ~connected /\ attempts = i + 1 /\ Len(slept) = i
  /\ mainPc = "newOk" => connected /\ attempts = i + 1 /\ Len(slept) = i
  /\ connected => ~ENABLED NewPing
  /\ fatal = "connect" => ~connected /\ attempts = maxRetries
  /\ (mainPc = "new" /\ attempts = maxRetries) =>
        ENABLED NewExhausted /\ ~ENABLED NewPing
  /\ (mainPc = "new" /\ attempts < maxRetries) =>
        ENABLED NewPing /\ ~ENABLED NewExhausted
  /\ mainPc = "newSleep" => ENABLED NewSleep

\* the last permitted ping succeeded
C10_Witness == mainPc = "newOk" /\ attempts = maxRetries /\ connected

(***************************************************************************)
(* C11: in backup.New the k-th sleep lasts min(2k, 30) seconds; a sleep    *)
(* lies between a failed ping and the next ping, so when New has ended,    *)
(* with the Manager or with the connection error, it has slept once less   *)
(* than it has pinged and the time slept is the sum of min(2k, 30) over    *)
(* the retries made.                                                       *)
(***************************************************************************)
RECURSIVE SumSeq(_)
SumSeq(s) == IF s = <<>> THEN 0 ELSE Head(s) + SumSeq(Tail(s))

\* the sum of min(2k, 30) for k = 1..n
RECURSIVE BackoffTotal(_)
BackoffTotal(n) == IF n <= 0 THEN 0 ELSE Min2(n * 2, 30) + BackoffTotal(n - 1)

C11_BackoffDelays ==
  /\ \A k \in 1..Len(slept) : slept[k] = Min2(k * 2, 30)
  /\ (mainPc = "newOk" \/ fatal = "connect") =>
        /\ Len(slept) = attempts - 1
        /\ SumSeq(slept) = BackoffTotal(attempts - 1)

(***************************************************************************)
(* C12: the connection is made by backup.New only, once, while no cycle    *)
(* has been started: a ping is issued only inside New and before any       *)
(* cycle, the Manager comes into being at most once, and a cycle starts    *)
(* only with a Manager whose connection attempt succeeded.                 *)
(***************************************************************************)
C12_Step ==
  /\ connected' # connected =>
        /\ ~connected
        /\ mainPc = "new"
        /\ jobs = 0
        /\ \A c \in Cycles : pc[c] = "idle"
  /\ attempts' > attempts =>
        /\ mainPc = "new"
        /\ ~connected
        /\ \A c \in Cycles : pc[c] = "idle" /\ pc'[c] = "idle"
  /\ \A c \in Cycles :
        (pc[c] = "idle" /\ pc'[c] # "idle") =>
           /\ connected /\ connected'
           /\ mainPc \in {"newOk", "serving"}

C12_ConnectOnce == [][C12_Step]_vars

\* a cron job is under way after the startup cycle, on the connection New
\* made
C12_Witness ==
  /\ connected
  /\ pc[StartupCycle] = "done"
  /\ \E c \in Cycles : c # StartupCycle /\ pc[c] = "wait"

(***************************************************************************)
(* C13: an artifact name is the prefix, the 19 bytes of the formatted      *)
(* instant and the extension; of two names generated at instants at least  *)
(* one second apart the later one is different from and byte-wise greater  *)
(* than the earlier one.                                                   *)
(***************************************************************************)
C13_NamesIncrease ==
  \A c1 \in Cycles : \A c2 \in Cycles :
     (nameInstant[c1] >= 0 /\ nameInstant[c2] >= nameInstant[c1] + 1) =>
        /\ backupName[c1] # backupName[c2]
        /\ StrLess(backupName[c1], backupName[c2])
        /\ ~StrLess(backupName[c2], backupName[c1])
        /\ \A c \in {c1, c2} :
              /\ HasPrefix(backupName[c], NamePrefix)
              /\ HasSuffix(backupName[c], NameExt)
              /\ Len(backupName[c]) = Len(NamePrefix) + 19 + Len(NameExt)

\* one name was generated in 2024 and another one, in the first minute of
\* a later day, in 2025
C13_Witness ==
  \E c1 \in Cycles : \E c2 \in Cycles :
     /\ nameInstant[c1] >= 0
     /\ YearOf(nameInstant[c1]) < YearOf(nameInstant[c2])
     /\ DomOf(nameInstant[c1]) > DomOf(nameInstant[c2])
     /\ HourOf(nameInstant[c1]) > HourOf(nameInstant[c2])

(***************************************************************************)
(* Calls of the storage backend, as steps                                  *)
(***************************************************************************)
Last(s) == s[Len(s)]

\* the number of positions of seq that hold x
Count(seq, x) == Cardinality({k \in 1..Len(seq) : seq[k] = x})

\* this step is a call op of invocation c
Called(c, op) ==
  /\ Len(log'[c]) = Len(log[c]) + 1
  /\ Last(log'[c]).op = op

(***************************************************************************)
(* C14: when the Upload of a cycle has succeeded and its List has          *)
(* succeeded, the listing holds the uploaded name exactly once, on every   *)
(* backend, prefix and content.                                            *)
(***************************************************************************)
C14_UploadedListedOnce ==
  \A c \in Cycles :
     (UploadedOk(c) /\ HasListing(c)) =>
        Count(Listing(c), backupName[c]) = 1

(***************************************************************************)
(* C15: a Delete call for a name whose key the backend does not hold and   *)
(* which a listing would not return fails, and leaves the stored objects   *)
(* as they were.                                                           *)
(***************************************************************************)
C15_Step ==
  \A c \in Cycles :
     ( /\ Called(c, "DELETE")
       /\ getKey(cfg.storage, Last(log'[c]).arg) \notin objects
       /\ Count(StorageList(cfg.storage, objects), Last(log'[c]).arg) = 0 )
     => /\ ~Last(log'[c]).ok
        /\ objects' = objects

C15_DeleteMissingFails == [][C15_Step]_vars

(***************************************************************************)
(* C18: a successful List returns, in ascending byte order, one entry for  *)
(* every stored object that lies in the scope of the backend (a file of    *)
(* the backup directory, an object key under the prefix) and whose name,   *)
(* the part of the key after its last separator, ends in .rdb, and nothing *)
(* else, however many pages the listing has.                               *)
(***************************************************************************)
AfterLastSlash(k) ==
  LET cuts == {j \in 1..Len(k) : k[j] = 47}
      last == IF cuts = {} THEN 0 ELSE CHOOSE j \in cuts : \A m \in cuts : m <= j
  IN  SubSeq(k, last + 1, Len(k))

InScope(st, k) ==
  IF st.type = "local" THEN k # <<>> /\ k[Len(k)] # 47
  ELSE st.prefix = <<>> \/ HasPrefix(k, TrimSuffix(st.prefix, Slash) \o Slash)

ExactListing(L, st, objs) ==
  /\ \A a \in 1..(Len(L) - 1) : StrLeq(L[a], L[a + 1])
  /\ \A a \in 1..Len(L) : HasSuffix(L[a], NameExt)
  /\ \A nm \in {AfterLastSlash(k) : k \in objs} \cup {L[a] : a \in 1..Len(L)} :
        Count(L, nm) =
          Cardinality({k \in objs : /\ InScope(st, k)
                                    /\ AfterLastSlash(k) = nm
                                    /\ HasSuffix(nm, NameExt)})

C18_Step ==
  \A c \in Cycles :
     (Called(c, "LIST") /\ Last(log'[c]).ok) =>
        ExactListing(Last(log'[c]).arg, cfg.storage, objects)

C18_ListExact == [][C18_Step]_vars

\* an object store with a prefix has returned a listing of more than one
\* page while it held an object outside the prefix and one without the
\* extension
C18_Witness ==
  \E c \in Cycles :
     /\ cfg.storage.type \in {"s3", "gcp"}
     /\ cfg.storage.prefix # <<>>
     /\ pc[c] = "delete"
     /\ Len(backups[c]) > PageSize
     /\ \E k \in objects : ~InScope(cfg.storage, k)
     /\ \E k \in objects :
           InScope(cfg.storage, k) /\ ~HasSuffix(AfterLastSlash(k), NameExt)

(***************************************************************************)
(* C20: when a cycle with retention count r > 0 has returned and its List  *)
(* and every one of its Delete calls succeeded, the backend lists at most  *)
(* r artifacts: the r greatest names of the cycle's listing.               *)
(***************************************************************************)
C20_RetentionBound ==
  \A c \in Cycles :
     ( /\ Returned(c)
       /\ cfg.RetentionCount > 0
       /\ HasListing(c)
       /\ \A k \in OpsOf(c, "DELETE") : log[c][k].ok )
     => LET L == Listing(c)
            r == cfg.RetentionCount
            held == StorageList(cfg.storage, objects)
        IN  /\ Len(held) <= r
            /\ held = SubSeq(L, Len(L) - Min2(r, Len(L)) + 1, Len(L))

(***************************************************************************)
(* C16: an Upload of the local backend whose source file cannot be opened  *)
(* returns an error, which ends the cycle as a failed upload, and the      *)
(* backup directory holds the same entries after the call as before it.    *)
(***************************************************************************)
C16_Step ==
  \A c \in Cycles :
     ( /\ cfg.storage.type = "local"
       /\ Called(c, "UPLOAD")
       /\ uploadOut'[c] = "nosrc" )
     => /\ ~Last(log'[c]).ok
        /\ pc'[c] = "returned"
        /\ result'[c] = "upload"
        /\ errKind'[c] = <<"upload", "nosrc">>
        /\ objects' = objects

C16_NoSourceNoFile == [][C16_Step]_vars

\* the local Upload failed on its source and the directory does not hold
\* the artifact
C16_Witness ==
  \E c \in Cycles :
     /\ cfg.storage.type = "local"
     /\ Returned(c)
     /\ uploadOut[c] = "nosrc"
     /\ result[c] = "upload"
     /\ getKey(cfg.storage, backupName[c]) \notin objects

(***************************************************************************)
(* C17: an Upload of an object-store backend that returns an error because *)
(* the transfer was cancelled or failed midway creates no object: the      *)
(* backend holds the same keys after the call as before it.                *)
(***************************************************************************)
C17_Step ==
  \A c \in Cycles :
     ( /\ cfg.storage.type \in {"s3", "gcp"}
       /\ Called(c, "UPLOAD")
       /\ uploadOut'[c] \in {"io", "ctx"} )
     => /\ ~Last(log'[c]).ok
        /\ objects' = objects

C17_NoPartialCommit == [][C17_Step]_vars

(***************************************************************************)
(* C19: the local Upload returns success only if the copy went through and *)
(* the destination was closed without error; every other way it ends is    *)
(* reported as a failure.                                                  *)
(***************************************************************************)
C19_LocalSuccessIsDurable ==
  \A c \in Cycles :
     cfg.storage.type = "local" =>
        /\ UploadedOk(c) => uploadOut[c] = "ok"
        /\ (uploadOut[c] \notin {"", "ok"}) =>
              /\ Returned(c)
              /\ result[c] = "upload"

(***************************************************************************)
(* C21: a cycle names and uploads its artifact only after a status read of *)
(* its own wait phase reported that no snapshot is in progress: the call   *)
(* right before the naming is a successful poll that reported 0, it comes  *)
(* after the calls of the trigger step, and a cycle past its wait phase    *)
(* has polled at least once, whatever the status read of the trigger step  *)
(* reported.                                                               *)
(***************************************************************************)
PastWait(c) == pc[c] \in {"name", "upload", "list", "delete"} \/ result[c] = "ok"

ReportedIdle(e) == e.op = "POLL" /\ e.ok /\ e.arg = <<Digit(0)>>

C21_UploadAfterOwnPoll ==
  \A c \in Cycles :
     LET l == log[c]
     IN  /\ \A k \in OpsOf(c, "NAME") :
               /\ k >= 3
               /\ ReportedIdle(l[k - 1])
               /\ l[1].op = "INFO"
               /\ \A j \in 1..(k - 2) : l[j].op \in {"INFO", "BGSAVE", "POLL"}
               /\ \A j \in 2..(k - 2) : l[j].op = "POLL" => SawInProgress(l[j])
         /\ \A k \in OpsOf(c, "UPLOAD") :
               k >= 4 /\ l[k - 1].op = "NAME" /\ ReportedIdle(l[k - 2])
         /\ PastWait(c) => \E p \in OpsOf(c, "POLL") : ReportedIdle(l[p])

\* the trigger step read that a snapshot was in progress, the first poll
\* read the same, the second poll read that it was over, and the cycle
\* uploaded
C21_Witness ==
  \E c \in Cycles :
     /\ UploadedOk(c)
     /\ SawInProgress(log[c][1])
     /\ Cardinality(OpsOf(c, "POLL")) >= 2
     /\ SawInProgress(log[c][2])

(***************************************************************************)
(* C22: a BGSAVE command that the store rejects because the store itself   *)
(* began a snapshot after the status read of the trigger step is not a     *)
(* failure of the trigger step: the cycle does not return the failure of   *)
(* the trigger stage for it.                                               *)
(***************************************************************************)
RejectedAsDuplicate(c) ==
  /\ Len(log[c]) = 2
  /\ log[c][1].op = "INFO" /\ log[c][1].ok /\ log[c][1].arg = <<Digit(0)>>
  /\ log[c][2].op = "BGSAVE" /\ ~log[c][2].ok
  /\ errKind[c] = <<"bgsave", "busy">>

C22_DuplicateTriggerIsNoOp ==
  \A c \in Cycles :
     (Returned(c) /\ RejectedAsDuplicate(c)) => result[c] # "trigger"

(***************************************************************************)
(* C23: with a retention count of at least 1, on a backend that holds only *)
(* artifacts this program wrote, no Delete call of a cycle is issued for   *)
(* the name the cycle has uploaded, and the uploaded artifact is still     *)
(* held after every Delete call of that cycle.                             *)
(***************************************************************************)
C23_Step ==
  \A c \in Cycles :
     ( /\ cfg.RetentionCount >= 1
       /\ Called(c, "DELETE") )
     => /\ Last(log'[c]).arg # backupName[c]
        /\ getKey(cfg.storage, backupName[c]) \in objects
              => getKey(cfg.storage, backupName[c]) \in objects'

C23_OwnUploadSurvives == [][C23_Step]_vars

(***************************************************************************)
(* C24: when the retention passes of two overlapping cycles interleave,    *)
(* with a retention count r > 0, a Delete call never removes one of the r  *)
(* newest artifacts the backend holds, and never leaves the backend with   *)
(* fewer artifacts than the smaller of r and the number it held before     *)
(* the call; a Delete call for an artifact the other cycle has already     *)
(* removed removes nothing.                                                *)
(***************************************************************************)
NewerThan(k, objs) == {o \in objs : StrLess(k, o)}

C24_Step ==
  \A c \in Cycles :
     ( /\ cfg.RetentionCount > 0
       /\ Called(c, "DELETE") )
     => /\ objects' \subseteq objects
        /\ \A k \in objects \ objects' :
              Cardinality(NewerThan(k, objects)) >= cfg.RetentionCount
        /\ Cardinality(objects') >=
              Min2(cfg.RetentionCount, Cardinality(objects))
        /\ getKey(cfg.storage, Last(log'[c]).arg) \notin objects
              => objects' = objects

C24_OverlapKeepsNewest == [][C24_Step]_vars

\* both cycles are in their retention pass, both called Delete for the
\* same name, the first call removed the artifact and the second one
\* failed although its context was live
C24_Witness ==
  \E c, d \in Cycles :
     /\ c # d
     /\ ~ctxDone[d]
     /\ \E k \in OpsOf(c, "DELETE") : \E j \in OpsOf(d, "DELETE") :
           /\ log[c][k].arg = log[d][j].arg
           /\ log[c][k].ok
           /\ ~log[d][j].ok
     /\ Cardinality(objects) >= cfg.RetentionCount

(***************************************************************************)
(* C25: on the object-store backends List and Delete address the same      *)
(* objects, for every prefix and bucket content: a successful List returns *)
(* no name twice, and a successful Delete of a name the backend lists      *)
(* removes one object and no other, after which the backend no longer      *)
(* lists the name.                                                         *)
(***************************************************************************)
C25_Step ==
  \A c \in Cycles :
     LET st == cfg.storage
         e == Last(log'[c])
     IN  /\ (st.type \in {"s3", "gcp"} /\ Called(c, "LIST") /\ e.ok) =>
               \A k \in 1..Len(e.arg) : Count(e.arg, e.arg[k]) = 1
         /\ ( /\ st.type \in {"s3", "gcp"}
              /\ Called(c, "DELETE")
              /\ e.ok
              /\ Count(StorageList(st, objects), e.arg) >= 1 )
            => /\ objects' \subseteq objects
               /\ Cardinality(objects \ objects') = 1
               /\ Count(StorageList(st, objects'), e.arg) = 0

C25_ListDeleteAgree == [][C25_Step]_vars

=============================================================================
